---- MODULE Spec2Model ----
(***************************************************************************)
(* gotsdb storage engine: a hot tier (in-memory registry of collections)   *)
(* in front of a cold tier (one gob file per collection).                  *)
(*                                                                         *)
(* Every Engine call is executed by a thread as a sequence of steps; one   *)
(* step is one access to shared state (the registry map, a collection map, *)
(* the file system).  Spec runs the calls one at a time, SpecConc lets     *)
(* several request handlers interleave step by step, as net/http does,     *)
(* SpecPath is Spec with a caller that also passes an id with a path       *)
(* separator.                                                              *)
(*                                                                         *)
(* I/O failures are modelled where FlushToDisk opens and writes the file;  *)
(* os.Stat and the read of a well-formed file are taken to succeed.  A     *)
(* file is a sequence of whole gob messages: a write fails before or after *)
(* a message, not inside one.  Map iteration order does not show in the    *)
(* decoded map, so Encode sends the pairs in key order.  The lookup and    *)
(* the key read of HotStorageService.ReadKey are one step.                 *)
(***************************************************************************)
EXTENDS Integers, Sequences, FiniteSets, TLC

\* ---- bounds ----
NumIds == 2
NumKeys == 2
NumVals == 2
NThreads == 2
MaxCalls == 4
MaxConcCalls == 3
MaxPathCalls == 3

Ids == 1..NumIds
\* one more id, whose name is no plain file name; only SpecPath passes it
PathId == NumIds + 1
AllIds == Ids \cup {PathId}
Keys == 1..NumKeys
Vals == 1..NumVals
Threads == 1..NThreads
Refs == 1..(NumIds + NThreads)

\* the absent value of a key, a nil map reference, an unused argument
None == 0
Nil == 0

\* ---- type Collection: a map from key to value; None marks a missing key ----
Collection == [Keys -> Vals \cup {None}]
EmptyCollection == [k \in Keys |-> None]

\* ---- error values (the distinct messages the code builds) ----
OK == "nil"
ErrNoCollection == "No collection found in hot or cold storage"
ErrUnableToLoad == "Unable to find a collection to load into hot storage"
ErrHotNoCollection == "No collection found in hot storage"
ErrNoKey == "No value found for key in hot collection"
ErrAlreadyExists == "Collection already exists in hot storage"
ErrOpen == "open: os error"
ErrEncode == "gob: write error"
ErrDecode == "gob: decode error"

VARIABLES
    autoCreateCollection, \* Engine.autoCreateCollection
    collections,          \* HotStorageService.collections: id -> map reference
    heap,                 \* the map objects the references point to
    disk,                 \* dataDir: id -> the file <id>.tsdata
    pc, call, loc, ret,   \* per thread: position, arguments, locals, result
    ncalls,               \* number of calls begun
    lastW,                \* history: last acknowledged value per id and key
    tier,                 \* history: tier state of the call's id when it began
    snap,                 \* history: hot contents and disk when the call began
    prev                  \* history: the call completed before the current one

vars == <<autoCreateCollection, collections, heap, disk, pc, call, loc, ret,
          ncalls, lastW, tier, snap, prev>>

\* ---- files ----
\* A file is a sequence of gob messages.  Encode sends the type descriptor of
\* the map type, then one value message: the pair count and the pairs.
NoFile == [exists |-> FALSE, cells |-> <<>>]
TypeMsg == [tag |-> "type", kv |-> <<>>]
HoleMsg == [tag |-> "hole", kv |-> <<>>]

RECURSIVE EncodePairs(_, _)
EncodePairs(m, k) ==
    IF k > NumKeys THEN <<>>
    ELSE (IF m[k] = None THEN <<>> ELSE <<(<<k, m[k]>>)>>) \o EncodePairs(m, k + 1)

\* faulty variant: the encoder skips the first pair of the map
ValueMsg_SkipFirst(m) ==
    [tag |-> "value",
     kv |-> IF EncodePairs(m, 1) = <<>> THEN <<>> ELSE Tail(EncodePairs(m, 1))]

ValueMsg(m) == [tag |-> "value", kv |-> EncodePairs(m, 1)]

\* faulty variant: the decoder stops after the first pair
DecodePairs_FirstOnly(kv, m) ==
    IF kv = <<>> THEN m ELSE [m EXCEPT ![Head(kv)[1]] = Head(kv)[2]]

RECURSIVE DecodePairs(_, _)
DecodePairs(kv, m) ==
    IF kv = <<>> THEN m
    ELSE DecodePairs(Tail(kv), [m EXCEPT ![Head(kv)[1]] = Head(kv)[2]])

Decodable(f) ==
    /\ f.exists
    /\ Len(f.cells) = 2
    /\ f.cells[1].tag = "type"
    /\ f.cells[2].tag = "value"

Decode(f) == DecodePairs(f.cells[2].kv, EmptyCollection)

\* a write of one message at message offset pos through a descriptor of the
\* file; writing past the end leaves a hole of zero bytes
WriteAt(f, pos, msg) ==
    LET n == Len(f.cells)
        padded == IF n >= pos + 1 THEN f.cells
                  ELSE f.cells \o [i \in 1..(pos + 1 - n) |-> HoleMsg]
    IN [exists |-> TRUE,
        cells |-> [i \in 1..Len(padded) |-> IF i = pos + 1 THEN msg ELSE padded[i]]]

EncodeFile(m) == [exists |-> TRUE, cells |-> <<TypeMsg, ValueMsg(m)>>]

\* ---- collection ids and file names ----
\* An id is a string, here a sequence of characters.  The plain ids are
\* single path elements; the id of PathId climbs out of the data directory.
PlainNames == << <<"a">>, <<"b", "-">>, <<"c", "1">>, <<"d">> >>
IdName(id) == IF id = PathId THEN <<".", ".", "/", "c">> ELSE PlainNames[id]
DataDir == <<"d", "a", "t", "a">>
Ext == <<".", "t", "s", "d", "a", "t", "a">>
Sep == "/"
DotDot == <<".", ".">>
\* the characters of the class [a-zA-Z0-9] among those the names are made of
Alnum == {"a", "b", "c", "d", "s", "t", "1"}

\* strings.Index: the first position where sub occurs in s, 0 if none
IndexOf(s, sub) ==
    LET at == {i \in 1..(Len(s) + 1 - Len(sub)) : SubSeq(s, i, i + Len(sub) - 1) = sub}
    IN IF at = {} THEN 0 ELSE CHOOSE i \in at : \A j \in at : i <= j

RECURSIVE SplitPath(_)
SplitPath(s) ==
    LET i == IndexOf(s, <<Sep>>) IN
    IF i = 0 THEN <<s>>
    ELSE <<SubSeq(s, 1, i - 1)>> \o SplitPath(SubSeq(s, i + 1, Len(s)))

\* filepath.Clean, element by element: ".." removes the element before it
RECURSIVE Clean(_, _)
Clean(elems, stack) ==
    IF elems = <<>> THEN stack
    ELSE LET e == Head(elems) IN
         Clean(Tail(elems),
               IF e = <<>> \/ e = <<".">> THEN stack
               ELSE IF e # DotDot THEN Append(stack, e)
               ELSE IF stack = <<>> \/ stack[Len(stack)] = DotDot THEN Append(stack, e)
               ELSE SubSeq(stack, 1, Len(stack) - 1))

\* filepath.Join(dataDir, fmt.Sprintf("%s.tsdata", id)), as path elements
DataFilePath(id) == Clean(SplitPath(DataDir \o <<Sep>> \o IdName(id) \o Ext), <<>>)
InDataDir(path) == Len(path) = 2 /\ path[1] = DataDir

\* regexp.MatchString("[a-zA-Z0-9]+.tsdata", name): unanchored; the dot
\* stands for any one character
MatchString(name) ==
    \E i \in 1..Len(name) : \E j \in i..Len(name) :
        /\ \A n \in i..j : name[n] \in Alnum
        /\ j + 7 <= Len(name)
        /\ SubSeq(name, j + 2, j + 7) = Tail(Ext)

\* strings.Split(name, ".tsdata")[0]
SplitExt(name) ==
    IF IndexOf(name, Ext) = 0 THEN name ELSE SubSeq(name, 1, IndexOf(name, Ext) - 1)

\* ---- views of the two tiers ----
HotExists(id) == collections[id] # Nil
ColdExists(id) == disk[id].exists
HotView(id) ==
    [hot |-> HotExists(id),
     m |-> IF HotExists(id) THEN heap[collections[id]] ELSE EmptyCollection]
HotViews == [id \in AllIds |-> HotView(id)]
Tier(id) ==
    IF HotExists(id) THEN (IF ColdExists(id) THEN "hot+cold" ELSE "hot")
    ELSE (IF ColdExists(id) THEN "cold" ELSE "absent")

\* ---- the state ----
FileCells == {<<>>, <<TypeMsg>>} \cup {<<h, ValueMsg(m)>> : h \in {TypeMsg, HoleMsg}, m \in Collection}
TypeOK ==
    /\ autoCreateCollection \in BOOLEAN
    /\ collections \in [AllIds -> Refs \cup {Nil}]
    /\ heap \in [Refs -> Collection]
    /\ \A id \in AllIds : disk[id] = NoFile \/ (disk[id].exists /\ disk[id].cells \in FileCells)
    /\ \A t \in Threads :
        /\ loc[t].id \in AllIds \cup {None}
        /\ loc[t].ref \in Refs \cup {Nil}
        /\ loc[t].seen \subseteq AllIds
        /\ ret[t].val \in Vals \cup {None}
    /\ lastW \in [AllIds -> Collection]

\* ---- map objects ----
\* an object no registry entry and no local refers to is garbage
Live(cols, lc) == ({cols[id] : id \in AllIds} \cup {lc[t].ref : t \in Threads}) \ {Nil}
Sweep(h, cols, lc) == [r \in Refs |-> IF r \in Live(cols, lc) THEN h[r] ELSE EmptyCollection]
NewRef == CHOOSE r \in Refs : r \notin Live(collections, loc) /\ \A q \in Refs : q < r => q \in Live(collections, loc)

\* ---- calls ----
NoCall == [op |-> "none", id |-> None, key |-> None, val |-> None]
NoRet == [err |-> OK, val |-> None, errs |-> <<>>, ids |-> <<>>]
NoLoc == [id |-> None, ref |-> Nil, seen |-> {}, errs |-> <<>>]
B2I(b) == IF b THEN 1 ELSE 0

Calls(I) ==
    [op : {"WriteKey"}, id : I, key : Keys, val : Vals]
    \cup [op : {"ReadKey"}, id : I, key : Keys, val : {None}]
    \cup [op : {"FlushCollection", "IsHot", "CollectionExists"}, id : I, key : {None}, val : {None}]
    \cup [op : {"FlushAllCollections", "ListCollections"}, id : {None}, key : {None}, val : {None}]

Entry(op) ==
    CASE op = "WriteKey" -> "lcinp_hot"
      [] op = "ReadKey" -> "rk_hot"
      [] op = "FlushCollection" -> "fc_hot"
      [] op = "FlushAllCollections" -> "fa_range"
      [] op = "IsHot" -> "ce_hot"
      [] op = "CollectionExists" -> "ce_hot"
      [] op = "ListCollections" -> "ls_hot"

\* a data directory left by earlier runs holds complete files only
InitCollections == {[k \in Keys |-> IF k = 1 THEN 1 ELSE None]}
InitFiles == {NoFile} \cup {EncodeFile(m) : m \in InitCollections}

Init ==
    /\ autoCreateCollection \in BOOLEAN
    /\ collections = [id \in AllIds |-> Nil]
    /\ heap = [r \in Refs |-> EmptyCollection]
    /\ disk \in {d \in [AllIds -> InitFiles] : d[PathId] = NoFile}
    /\ pc = [t \in Threads |-> "idle"]
    /\ call = [t \in Threads |-> NoCall]
    /\ loc = [t \in Threads |-> NoLoc]
    /\ ret = [t \in Threads |-> NoRet]
    /\ ncalls = 0
    /\ lastW = [id \in AllIds |-> EmptyCollection]
    /\ tier = [t \in Threads |-> "none"]
    /\ snap = [hot |-> [id \in AllIds |-> [hot |-> FALSE, m |-> EmptyCollection]], disk |-> disk]
    /\ prev = [call |-> NoCall, err |-> OK, coll |-> [hot |-> FALSE, m |-> EmptyCollection]]

\* a request handler of main.go calls the engine; hist says whether the
\* history of the call sequence is recorded
Begin(t, I, max, hist) ==
    /\ pc[t] \in {"idle", "done"}
    /\ ncalls < max
    /\ \E c \in Calls(I) :
        /\ call' = [call EXCEPT ![t] = c]
        /\ pc' = [pc EXCEPT ![t] = Entry(c.op)]
        /\ loc' = [loc EXCEPT ![t] = [NoLoc EXCEPT !.id = c.id]]
        /\ tier' = [tier EXCEPT ![t] = IF c.id = None THEN "none" ELSE Tier(c.id)]
    /\ ret' = [ret EXCEPT ![t] = NoRet]
    /\ ncalls' = ncalls + 1
    /\ snap' = IF hist THEN [hot |-> HotViews, disk |-> disk] ELSE snap
    /\ prev' = IF hist
               THEN [call |-> call[t], err |-> ret[t].err,
                     coll |-> IF call[t].id = None THEN [hot |-> FALSE, m |-> EmptyCollection]
                              ELSE snap.hot[call[t].id]]
               ELSE prev
    /\ UNCHANGED <<autoCreateCollection, collections, heap, disk, lastW>>

\* ---- returns ----
hist == <<ncalls, tier, snap, prev>>

\* the call of thread t returns error e and value v
Return(t, e, v) ==
    /\ pc' = [pc EXCEPT ![t] = "done"]
    /\ ret' = [ret EXCEPT ![t] = [err |-> e, val |-> v, errs |-> <<>>, ids |-> <<>>]]
    /\ loc' = [loc EXCEPT ![t] = NoLoc]

\* FlushCollection returns e: to its caller, or into the loop of
\* FlushAllCollections, which appends a non-nil error to errs
FlushReturn(t, e) ==
    IF call[t].op = "FlushAllCollections"
    THEN /\ pc' = [pc EXCEPT ![t] = "fa_range"]
         /\ loc' = [loc EXCEPT ![t].ref = Nil,
                               ![t].errs = IF e = OK THEN @ ELSE Append(@, e)]
         /\ ret' = ret
    ELSE Return(t, e, None)

Goto(t, label) == pc' = [pc EXCEPT ![t] = label]

\* ---- Engine.LoadCollectionIfNotPresent ----
LoadCollectionIfNotPresent_Hot(t) ==
    /\ pc[t] = "lcinp_hot"
    /\ Goto(t, IF HotExists(loc[t].id) THEN "hw_lookup" ELSE "lcinp_cold")
    /\ UNCHANGED <<autoCreateCollection, collections, heap, disk, call, loc, ret, lastW, hist>>

\* faulty variant: the collection is created whatever autoCreateCollection says
LoadCollectionIfNotPresent_Cold_AlwaysCreate(t) ==
    /\ pc[t] = "lcinp_cold"
    /\ Goto(t, IF ColdExists(loc[t].id) THEN "lc_read" ELSE "cc_check")
    /\ UNCHANGED <<autoCreateCollection, collections, heap, disk, call, loc, ret, lastW, hist>>

LoadCollectionIfNotPresent_Cold(t) ==
    /\ pc[t] = "lcinp_cold"
    /\ IF ColdExists(loc[t].id)
       THEN Goto(t, "lc_read") /\ UNCHANGED <<loc, ret>>
       ELSE IF autoCreateCollection
            THEN Goto(t, "cc_check") /\ UNCHANGED <<loc, ret>>
            ELSE Return(t, ErrUnableToLoad, None)
    /\ UNCHANGED <<autoCreateCollection, collections, heap, disk, call, lastW, hist>>

\* ---- Engine.LoadCollection ----
\* ColdStorageService.ReadFromDiskForId: open the file and decode it into a new map
ReadFromDiskForId(t) ==
    /\ pc[t] = "lc_read"
    /\ LET f == disk[loc[t].id] IN
         IF ~f.exists
         THEN Return(t, ErrOpen, None) /\ heap' = heap
         ELSE IF ~Decodable(f)
              THEN Return(t, ErrDecode, None) /\ heap' = heap
              ELSE /\ Goto(t, "lc_install")
                   /\ loc' = [loc EXCEPT ![t].ref = NewRef]
                   /\ heap' = [heap EXCEPT ![NewRef] = Decode(f)]
                   /\ ret' = ret
    /\ UNCHANGED <<autoCreateCollection, collections, disk, call, lastW, hist>>

\* faulty variant: an empty map is installed, not the decoded one
LoadCollection_Install_Empty(t) ==
    /\ pc[t] = "lc_install"
    /\ collections' = [collections EXCEPT ![loc[t].id] = loc[t].ref]
    /\ loc' = [loc EXCEPT ![t].ref = Nil]
    /\ Goto(t, IF call[t].op = "WriteKey" THEN "hw_lookup" ELSE "hr_read")
    /\ heap' = Sweep([heap EXCEPT ![loc[t].ref] = EmptyCollection], collections', loc')
    /\ UNCHANGED <<autoCreateCollection, disk, call, ret, lastW, hist>>

\* e.hot.collections[id] = collection
LoadCollection_Install(t) ==
    /\ pc[t] = "lc_install"
    /\ collections' = [collections EXCEPT ![loc[t].id] = loc[t].ref]
    /\ loc' = [loc EXCEPT ![t].ref = Nil]
    /\ Goto(t, IF call[t].op = "WriteKey" THEN "hw_lookup" ELSE "hr_read")
    /\ heap' = Sweep(heap, collections', loc')
    /\ UNCHANGED <<autoCreateCollection, disk, call, ret, lastW, hist>>

\* ---- HotStorageService.CreateCollection ----
CreateCollection_Check(t) ==
    /\ pc[t] = "cc_check"
    /\ IF HotExists(loc[t].id)
       THEN Return(t, ErrAlreadyExists, None)
       ELSE Goto(t, "cc_insert") /\ UNCHANGED <<loc, ret>>
    /\ UNCHANGED <<autoCreateCollection, collections, heap, disk, call, lastW, hist>>

CreateCollection_Insert(t) ==
    /\ pc[t] = "cc_insert"
    /\ collections' = [collections EXCEPT ![loc[t].id] = NewRef]
    /\ Goto(t, "hw_lookup")
    /\ heap' = Sweep([heap EXCEPT ![NewRef] = EmptyCollection], collections', loc)
    /\ UNCHANGED <<autoCreateCollection, disk, call, loc, ret, lastW, hist>>

\* ---- HotStorageService.WriteKey ----
HotWriteKey_Lookup(t) ==
    /\ pc[t] = "hw_lookup"
    /\ IF HotExists(loc[t].id)
       THEN /\ Goto(t, "hw_store")
            /\ loc' = [loc EXCEPT ![t].ref = collections[loc[t].id]]
            /\ ret' = ret
       ELSE Return(t, ErrHotNoCollection, None)
    /\ UNCHANGED <<autoCreateCollection, collections, heap, disk, call, lastW, hist>>

\* faulty variant: the value goes into a copy of the map, not into the map
HotWriteKey_Store_Copy(t) ==
    /\ pc[t] = "hw_store"
    /\ Return(t, OK, None)
    /\ heap' = Sweep(heap, collections, loc')
    /\ lastW' = [lastW EXCEPT ![call[t].id][call[t].key] = call[t].val]
    /\ UNCHANGED <<autoCreateCollection, collections, disk, call, hist>>

HotWriteKey_Store(t) ==
    /\ pc[t] = "hw_store"
    /\ Return(t, OK, None)
    /\ heap' = Sweep([heap EXCEPT ![loc[t].ref][call[t].key] = call[t].val], collections, loc')
    /\ lastW' = [lastW EXCEPT ![call[t].id][call[t].key] = call[t].val]
    /\ UNCHANGED <<autoCreateCollection, collections, disk, call, hist>>

\* ---- Engine.ReadKey ----
ReadKey_Hot(t) ==
    /\ pc[t] = "rk_hot"
    /\ Goto(t, IF HotExists(loc[t].id) THEN "hr_read" ELSE "rk_cold")
    /\ UNCHANGED <<autoCreateCollection, collections, heap, disk, call, loc, ret, lastW, hist>>

\* faulty variant: a read of an absent collection takes the load path of a write
ReadKey_Cold_ViaLoad(t) ==
    /\ pc[t] = "rk_cold"
    /\ Goto(t, IF ColdExists(loc[t].id) THEN "lc_read" ELSE "lcinp_cold")
    /\ UNCHANGED <<autoCreateCollection, collections, heap, disk, call, loc, ret, lastW, hist>>

ReadKey_Cold(t) ==
    /\ pc[t] = "rk_cold"
    /\ IF ColdExists(loc[t].id)
       THEN Goto(t, "lc_read") /\ UNCHANGED <<loc, ret>>
       ELSE Return(t, ErrNoCollection, None)
    /\ UNCHANGED <<autoCreateCollection, collections, heap, disk, call, lastW, hist>>

\* ---- HotStorageService.ReadKey ----
HotReadKey(t) ==
    /\ pc[t] = "hr_read"
    /\ IF ~HotExists(loc[t].id)
       THEN Return(t, ErrHotNoCollection, None)
       ELSE LET value == heap[collections[loc[t].id]][call[t].key] IN
            IF value = None THEN Return(t, ErrNoKey, None)
            ELSE Return(t, OK, value)
    /\ UNCHANGED <<autoCreateCollection, collections, heap, disk, call, lastW, hist>>

\* ---- Engine.FlushCollection ----
\* faulty variant: the flush does not check that the collection is hot
FlushCollection_Hot_NoCheck(t) ==
    /\ pc[t] = "fc_hot"
    /\ Goto(t, "fc_arg")
    /\ UNCHANGED <<autoCreateCollection, collections, heap, disk, call, loc, ret, lastW, hist>>

FlushCollection_Hot(t) ==
    /\ pc[t] = "fc_hot"
    /\ IF HotExists(loc[t].id)
       THEN Goto(t, "fc_arg") /\ UNCHANGED <<loc, ret>>
       ELSE FlushReturn(t, ErrNoCollection)
    /\ UNCHANGED <<autoCreateCollection, collections, heap, disk, call, lastW, hist>>

\* the argument e.hot.collections[id]: the map reference, nil when the entry is gone
FlushCollection_Arg(t) ==
    /\ pc[t] = "fc_arg"
    /\ loc' = [loc EXCEPT ![t].ref = collections[loc[t].id]]
    /\ Goto(t, "fd_open")
    /\ UNCHANGED <<autoCreateCollection, collections, heap, disk, call, ret, lastW, hist>>

\* ---- ColdStorageService.FlushToDisk ----
\* faulty variant: a flush that cannot open the file evicts the collection
FlushToDisk_Open_EvictOnError(t) ==
    /\ pc[t] = "fd_open"
    /\ \E fail \in BOOLEAN :
         IF fail
         THEN /\ FlushReturn(t, ErrOpen)
              /\ disk' = disk
              /\ collections' = [collections EXCEPT ![loc[t].id] = Nil]
         ELSE /\ disk' = [disk EXCEPT ![loc[t].id] = [exists |-> TRUE, cells |-> <<>>]]
              /\ Goto(t, "fd_type")
              /\ UNCHANGED <<loc, ret, collections>>
    /\ heap' = Sweep(heap, collections', loc')
    /\ UNCHANGED <<autoCreateCollection, call, lastW, hist>>

\* os.OpenFile with O_RDWR|O_CREATE|O_TRUNC: the file exists and is empty
FlushToDisk_Open(t) ==
    /\ pc[t] = "fd_open"
    /\ \E fail \in BOOLEAN :
         IF fail
         THEN FlushReturn(t, ErrOpen) /\ disk' = disk
         ELSE /\ disk' = [disk EXCEPT ![loc[t].id] = [exists |-> TRUE, cells |-> <<>>]]
              /\ Goto(t, "fd_type")
              /\ UNCHANGED <<loc, ret>>
    /\ heap' = Sweep(heap, collections, loc')
    /\ UNCHANGED <<autoCreateCollection, collections, call, lastW, hist>>

\* faulty variant: a flush whose first write fails removes the file
FlushToDisk_EncodeType_RemoveOnError(t) ==
    /\ pc[t] = "fd_type"
    /\ \E fail \in BOOLEAN :
         IF fail
         THEN FlushReturn(t, ErrEncode) /\ disk' = [disk EXCEPT ![loc[t].id] = NoFile]
         ELSE /\ disk' = [disk EXCEPT ![loc[t].id] = WriteAt(@, 0, TypeMsg)]
              /\ Goto(t, "fd_value")
              /\ UNCHANGED <<loc, ret>>
    /\ heap' = Sweep(heap, collections, loc')
    /\ UNCHANGED <<autoCreateCollection, collections, call, lastW, hist>>

\* gob.Encoder.Encode, first write: the type descriptor
FlushToDisk_EncodeType(t) ==
    /\ pc[t] = "fd_type"
    /\ \E fail \in BOOLEAN :
         IF fail
         THEN FlushReturn(t, ErrEncode) /\ disk' = disk
         ELSE /\ disk' = [disk EXCEPT ![loc[t].id] = WriteAt(@, 0, TypeMsg)]
              /\ Goto(t, "fd_value")
              /\ UNCHANGED <<loc, ret>>
    /\ heap' = Sweep(heap, collections, loc')
    /\ UNCHANGED <<autoCreateCollection, collections, call, lastW, hist>>

\* faulty variant: the error of Encode is dropped and the collection is evicted anyway
FlushToDisk_EncodeValue_IgnoreError(t) ==
    /\ pc[t] = "fd_value"
    /\ \E fail \in BOOLEAN :
         disk' = IF fail THEN disk
                 ELSE [disk EXCEPT ![loc[t].id] =
                    WriteAt(@, 1, ValueMsg(IF loc[t].ref = Nil THEN EmptyCollection
                                           ELSE heap[loc[t].ref]))]
    /\ Goto(t, "fc_drop")
    /\ loc' = [loc EXCEPT ![t].ref = Nil]
    /\ heap' = Sweep(heap, collections, loc')
    /\ UNCHANGED <<autoCreateCollection, collections, call, ret, lastW, hist>>

\* gob.Encoder.Encode, second write: the map as it is now; a nil map is sent
\* as an empty one
FlushToDisk_EncodeValue(t) ==
    /\ pc[t] = "fd_value"
    /\ \E fail \in BOOLEAN :
         IF fail
         THEN FlushReturn(t, ErrEncode) /\ disk' = disk
         ELSE /\ disk' = [disk EXCEPT ![loc[t].id] =
                    WriteAt(@, 1, ValueMsg(IF loc[t].ref = Nil THEN EmptyCollection
                                           ELSE heap[loc[t].ref]))]
              /\ Goto(t, "fc_drop")
              /\ loc' = [loc EXCEPT ![t].ref = Nil]
              /\ ret' = ret
    /\ heap' = Sweep(heap, collections, loc')
    /\ UNCHANGED <<autoCreateCollection, collections, call, lastW, hist>>

\* ---- HotStorageService.DropCollection ----
DropCollection(t) ==
    /\ pc[t] = "fc_drop"
    /\ IF HotExists(loc[t].id)
       THEN /\ collections' = [collections EXCEPT ![loc[t].id] = Nil]
            /\ FlushReturn(t, OK)
       ELSE /\ collections' = collections
            /\ FlushReturn(t, ErrHotNoCollection)
    /\ heap' = Sweep(heap, collections', loc')
    /\ UNCHANGED <<autoCreateCollection, disk, call, lastW, hist>>

\* ---- Engine.FlushAllCollections ----
\* faulty variant: the loop is left at the first error
FlushAllCollections_Range_StopAtError(t) ==
    /\ pc[t] = "fa_range"
    /\ LET rest == {id \in AllIds : HotExists(id) /\ id \notin loc[t].seen} IN
         IF rest = {} \/ loc[t].errs # <<>>
         THEN /\ pc' = [pc EXCEPT ![t] = "done"]
              /\ ret' = [ret EXCEPT ![t] = [NoRet EXCEPT !.errs = loc[t].errs]]
              /\ loc' = [loc EXCEPT ![t] = NoLoc]
         ELSE \E id \in rest :
              /\ loc' = [loc EXCEPT ![t].id = id, ![t].seen = @ \cup {id}]
              /\ Goto(t, "fc_hot")
              /\ ret' = ret
    /\ UNCHANGED <<autoCreateCollection, collections, heap, disk, call, lastW, hist>>

\* for id := range e.hot.collections: the next entry not yet produced, in any
\* order; entries deleted before they are reached are not produced
FlushAllCollections_Range(t) ==
    /\ pc[t] = "fa_range"
    /\ LET rest == {id \in AllIds : HotExists(id) /\ id \notin loc[t].seen} IN
         IF rest = {}
         THEN /\ pc' = [pc EXCEPT ![t] = "done"]
              /\ ret' = [ret EXCEPT ![t] = [NoRet EXCEPT !.errs = loc[t].errs]]
              /\ loc' = [loc EXCEPT ![t] = NoLoc]
         ELSE \E id \in rest :
              /\ loc' = [loc EXCEPT ![t].id = id, ![t].seen = @ \cup {id}]
              /\ Goto(t, "fc_hot")
              /\ ret' = ret
    /\ UNCHANGED <<autoCreateCollection, collections, heap, disk, call, lastW, hist>>

\* ---- Engine.CollectionExists, also the first part of Engine.IsHot ----
CollectionExists_Hot(t) ==
    /\ pc[t] = "ce_hot"
    /\ IF HotExists(loc[t].id)
       THEN IF call[t].op = "IsHot"
            THEN Goto(t, "ih_hot") /\ UNCHANGED <<loc, ret>>
            ELSE Return(t, OK, B2I(TRUE))
       ELSE Goto(t, "ce_cold") /\ UNCHANGED <<loc, ret>>
    /\ UNCHANGED <<autoCreateCollection, collections, heap, disk, call, lastW, hist>>

\* ColdStorageService.CollectionExists: os.Stat of the data file
CollectionExists_Cold(t) ==
    /\ pc[t] = "ce_cold"
    /\ LET exists == ColdExists(loc[t].id) IN
         IF call[t].op = "IsHot"
         THEN IF exists
              THEN Goto(t, "ih_hot") /\ UNCHANGED <<loc, ret>>
              ELSE Return(t, ErrNoCollection, B2I(FALSE))
         ELSE Return(t, OK, B2I(exists))
    /\ UNCHANGED <<autoCreateCollection, collections, heap, disk, call, lastW, hist>>

\* ---- Engine.IsHot ----
\* faulty variant: every existing collection is reported hot
IsHot_Hot_AlwaysTrue(t) ==
    /\ pc[t] = "ih_hot"
    /\ Return(t, OK, B2I(TRUE))
    /\ UNCHANGED <<autoCreateCollection, collections, heap, disk, call, lastW, hist>>

IsHot_Hot(t) ==
    /\ pc[t] = "ih_hot"
    /\ Return(t, OK, B2I(HotExists(loc[t].id)))
    /\ UNCHANGED <<autoCreateCollection, collections, heap, disk, call, lastW, hist>>

\* ---- Engine.ListCollections ----
\* HotStorageService.ListCollections: ranges over the registry; loc.seen
\* holds the ids it collected (hotCollections)
HotListCollections(t) ==
    /\ pc[t] = "ls_hot"
    /\ loc' = [loc EXCEPT ![t].seen = {id \in AllIds : HotExists(id)}]
    /\ Goto(t, "ls_cold")
    /\ UNCHANGED <<autoCreateCollection, collections, heap, disk, call, ret, lastW, hist>>

\* the children of the data directory that are files (Readdir)
Children == {DataFilePath(id)[2] : id \in {i \in AllIds : disk[i].exists /\ InDataDir(DataFilePath(i))}}
\* the sequences that hold every element of S once: the orders in which a
\* range over a map with the keys S can append them
Orders(S) == {f \in [1..Cardinality(S) -> S] : \A i, j \in 1..Cardinality(S) : f[i] = f[j] => i = j}

\* ColdStorageService.ListCollections, then the merge of the two lists
\* into the set ids and the range over it that builds uniqueIds
ColdListCollections(t) ==
    /\ pc[t] = "ls_cold"
    /\ LET fileNames == {SplitExt(n) : n \in {c \in Children : MatchString(c)}}
           ids == {IdName(id) : id \in loc[t].seen} \cup fileNames
       IN \E uniqueIds \in Orders(ids) :
            /\ pc' = [pc EXCEPT ![t] = "done"]
            /\ ret' = [ret EXCEPT ![t] = [NoRet EXCEPT !.ids = uniqueIds]]
            /\ loc' = [loc EXCEPT ![t] = NoLoc]
    /\ UNCHANGED <<autoCreateCollection, collections, heap, disk, call, lastW, hist>>

\* ---- unsynchronized map accesses ----
\* the steps that insert into or delete from the registry map, and the
\* steps that look an id up in it or range over it
RegistryWrite(t) ==
    \/ pc[t] \in {"lc_install", "cc_insert"}
    \/ pc[t] = "fc_drop" /\ HotExists(loc[t].id)
RegistryRead(t) ==
    pc[t] \in {"lcinp_hot", "cc_check", "hw_lookup", "rk_hot", "hr_read", "fc_hot",
               "fc_arg", "fc_drop", "fa_range", "ce_hot", "ih_hot", "ls_hot"}
\* two threads are about to access the registry, one of them writing, with
\* nothing that orders the two accesses
RegistryRace ==
    \E t1, t2 \in Threads :
        t1 # t2 /\ RegistryWrite(t1) /\ (RegistryWrite(t2) \/ RegistryRead(t2))
\* the same for one collection map: a store against a store, a key read or
\* the encoder's range over the map
MapRace ==
    \E t1, t2 \in Threads :
        /\ t1 # t2
        /\ pc[t1] = "hw_store"
        /\ \/ pc[t2] \in {"hw_store", "fd_value"} /\ loc[t2].ref = loc[t1].ref
           \/ pc[t2] = "hr_read" /\ collections[loc[t2].id] = loc[t1].ref

\* The accesses of a race may take effect in either order, as the steps do;
\* or the Go runtime detects the race ("fatal error: concurrent map writes",
\* "concurrent map read and map write") and the process halts.
FatalError ==
    /\ RegistryRace \/ MapRace
    /\ pc' = [t \in Threads |-> "crashed"]
    /\ UNCHANGED <<autoCreateCollection, collections, heap, disk, call, loc, ret, lastW, hist>>

\* ---- specifications ----
Step(t) ==
    \/ LoadCollectionIfNotPresent_Hot(t)
    \/ LoadCollectionIfNotPresent_Cold(t)
    \/ ReadFromDiskForId(t)
    \/ LoadCollection_Install(t)
    \/ CreateCollection_Check(t)
    \/ CreateCollection_Insert(t)
    \/ HotWriteKey_Lookup(t)
    \/ HotWriteKey_Store(t)
    \/ ReadKey_Hot(t)
    \/ ReadKey_Cold(t)
    \/ HotReadKey(t)
    \/ FlushCollection_Hot(t)
    \/ FlushCollection_Arg(t)
    \/ FlushToDisk_Open(t)
    \/ FlushToDisk_EncodeType(t)
    \/ FlushToDisk_EncodeValue(t)
    \/ DropCollection(t)
    \/ FlushAllCollections_Range(t)
    \/ CollectionExists_Hot(t)
    \/ CollectionExists_Cold(t)
    \/ IsHot_Hot(t)
    \/ HotListCollections(t)
    \/ ColdListCollections(t)

\* one caller: every call runs to its return before the next begins
Next == Begin(1, Ids, MaxCalls, TRUE) \/ Step(1)
Spec == Init /\ [][Next]_vars

\* concurrent request handlers, interleaved step by step
NextConc ==
    \/ \E t \in Threads : Begin(t, Ids, MaxConcCalls, FALSE) \/ Step(t)
    \/ FatalError
SpecConc == Init /\ [][NextConc]_vars

\* one caller that passes any string as id, also one with path separators
NextPath == Begin(1, AllIds, MaxPathCalls, TRUE) \/ Step(1)
SpecPath == Init /\ [][NextPath]_vars

\* ---- properties ----
Done(t) == pc[t] = "done"
\* thread t takes a step of its call
Moves(t) == pc'[t] # pc[t] /\ pc'[t] # "crashed"
Quiescent == \A t \in Threads : pc[t] \in {"idle", "done"}
IOErrors == {ErrOpen, ErrEncode}
\* the call completed just before the current one succeeded and was op on id
After(op, id) == prev.call.op = op /\ prev.call.id = id /\ prev.err = OK
ColdValue(id, k) == IF Decodable(disk[id]) THEN Decode(disk[id])[k] ELSE None
HotValue(id, k) == HotView(id).m[k]

\* C1: with auto-create on, a ReadKey(c,k) that immediately follows a
\* successful WriteKey(c,k,v) returns v and no error, whatever tier c was in.
C1_RoundTrip ==
    (/\ autoCreateCollection
     /\ Done(1)
     /\ call[1].op = "ReadKey"
     /\ After("WriteKey", call[1].id)
     /\ prev.call.key = call[1].key)
    => (ret[1].err = OK /\ ret[1].val = prev.call.val)

\* the round trip on a collection that was cold-only before the write
C1_Witness ==
    /\ autoCreateCollection
    /\ Done(1)
    /\ call[1].op = "ReadKey"
    /\ After("WriteKey", call[1].id)
    /\ prev.call.key = call[1].key
    /\ ~prev.coll.hot
    /\ ColdExists(call[1].id)
    /\ ret[1].val = prev.call.val
    /\ ColdValue(call[1].id, call[1].key) # prev.call.val

\* C2: right after a successful FlushCollection(c), IsHot(c) returns false
\* without error, CollectionExists(c) returns true, and ReadKey(c,k) finds c
\* cold, reloads it and returns the value k had in the hot copy when the
\* flush began (the key-not-found error when k had none).
C2_TierTransparency ==
    /\ (Done(1) /\ call[1].op = "FlushCollection" /\ ret[1].err = OK)
       => (~HotExists(call[1].id) /\ ColdExists(call[1].id))
    /\ (Done(1) /\ After("FlushCollection", call[1].id))
       => /\ call[1].op = "IsHot" => (ret[1].err = OK /\ ret[1].val = B2I(FALSE))
          /\ call[1].op = "CollectionExists" => (ret[1].err = OK /\ ret[1].val = B2I(TRUE))
          /\ call[1].op = "ReadKey" =>
                /\ tier[1] = "cold"
                /\ HotExists(call[1].id)
                /\ ret[1].val = prev.coll.m[call[1].key]
                /\ ret[1].err = IF prev.coll.m[call[1].key] = None THEN ErrNoKey ELSE OK

\* a read after a flush that returns a value the file did not hold at the start
C2_Witness ==
    /\ Done(1)
    /\ After("FlushCollection", call[1].id)
    /\ call[1].op = "ReadKey"
    /\ ret[1].err = OK
    /\ ret[1].val = 2
    /\ prev.coll.hot
    /\ prev.coll.m[call[1].key] = 2

\* C3: calls made one at a time: ReadKey(c,k) returns the value of the most
\* recent successful WriteKey(c,k,_), across flushes, reloads and writes to
\* other keys.
C3_LastWriteWins ==
    (Done(1) /\ call[1].op = "ReadKey" /\ lastW[call[1].id][call[1].key] # None)
    => (ret[1].err = OK /\ ret[1].val = lastW[call[1].id][call[1].key])

\* a read that reloads a flushed collection in which both keys were written
C3_Witness ==
    /\ Done(1)
    /\ call[1].op = "ReadKey"
    /\ tier[1] = "cold"
    /\ \A k \in Keys : lastW[call[1].id][k] # None
    /\ ret[1].val = lastW[call[1].id][call[1].key]
    /\ ret[1].val = 2

\* C4: with auto-create on, concurrent WriteKey calls with distinct keys that
\* all began while their common collection id was absent from both tiers all
\* succeed, and afterwards the hot collection holds every written pair.
C4_ConcurrentFirstTouch ==
    \A t, u \in Threads :
        (/\ t # u
         /\ autoCreateCollection
         /\ Done(t) /\ Done(u)
         /\ call[t].op = "WriteKey" /\ call[u].op = "WriteKey"
         /\ call[t].id = call[u].id
         /\ call[t].key # call[u].key
         /\ tier[t] = "absent" /\ tier[u] = "absent")
        => /\ ret[t].err = OK
           /\ ret[u].err = OK
           /\ HotExists(call[t].id)
           /\ HotValue(call[t].id, call[t].key) = call[t].val
           /\ HotValue(call[u].id, call[u].key) = call[u].val

\* C5: a load from cold storage never replaces a hot copy that already
\* exists: the step that installs a loaded collection finds its id not hot.
C5_MaterializeOnce ==
    [][\A t \in Threads :
          (pc[t] = "lc_install" /\ Moves(t)) => ~HotExists(loc[t].id)]_vars

\* C6: when WriteKey(c,k,v) on a hot collection c and FlushCollection(c) have
\* both returned, a successful write that is the latest of k is in the hot or
\* in the cold copy; and no WriteKey fails because c left the hot registry
\* between its load step and its hot write.
C6_WriteFlushSerialized ==
    /\ \A t, u \in Threads :
        (/\ Done(t) /\ Done(u)
         /\ call[t].op = "WriteKey" /\ ret[t].err = OK
         /\ tier[t] \in {"hot", "hot+cold"}
         /\ call[u].op = "FlushCollection" /\ call[u].id = call[t].id
         /\ lastW[call[t].id][call[t].key] = call[t].val)
        => call[t].val \in {HotValue(call[t].id, call[t].key),
                            ColdValue(call[t].id, call[t].key)}
    /\ \A t \in Threads :
        (Done(t) /\ call[t].op = "WriteKey") => ret[t].err # ErrHotNoCollection

\* C7: FlushCollection evicts only after the write of the file succeeded:
\* when it comes to drop c the file holds the hot contents, and when the
\* persist step failed it returns that error and c is hot and unchanged.
C7_PersistThenEvict ==
    /\ pc[1] = "fc_drop"
       => /\ HotExists(loc[1].id)
          /\ Decodable(disk[loc[1].id])
          /\ Decode(disk[loc[1].id]) = HotView(loc[1].id).m
    /\ (Done(1) /\ call[1].op = "FlushCollection")
       => /\ ret[1].err = OK => (snap.hot[call[1].id].hot /\ ~HotExists(call[1].id))
          /\ ret[1].err \in IOErrors
                => (HotExists(call[1].id) /\ HotView(call[1].id) = snap.hot[call[1].id])
          /\ ret[1].err \in IOErrors \cup {OK, ErrNoCollection}

\* a flush of a non-empty collection whose encode step failed after the truncation
C7_Witness ==
    /\ Done(1)
    /\ call[1].op = "FlushCollection"
    /\ ret[1].err = ErrEncode
    /\ HotExists(call[1].id)
    /\ HotView(call[1].id).m # EmptyCollection
    /\ ~Decodable(disk[call[1].id])

\* C8: the file of a collection, when present, always holds a complete version.
C8_AtomicColdWrite == \A id \in Ids : ColdExists(id) => Decodable(disk[id])

\* C9: WriteKey on an id absent from both tiers: with auto-create off it
\* returns the not-found error and neither tier changes; with auto-create on
\* it succeeds and the id is hot.
C9_AutoCreateGating ==
    (Done(1) /\ call[1].op = "WriteKey" /\ tier[1] = "absent")
    => IF autoCreateCollection
       THEN ret[1].err = OK /\ HotExists(call[1].id)
       ELSE ret[1].err = ErrUnableToLoad /\ HotViews = snap.hot /\ disk = snap.disk

\* the refused write, with another collection hot at the time
C9_Witness ==
    /\ Done(1) /\ call[1].op = "WriteKey" /\ tier[1] = "absent"
    /\ ~autoCreateCollection
    /\ ret[1].err = ErrUnableToLoad
    /\ \E id \in Ids : HotExists(id) /\ HotValue(id, 2) # None

\* C10: FlushCollection on an id that is not hot returns the not-found error,
\* and the files and the hot registry are as they were.
C10_FlushNotHot ==
    (Done(1) /\ call[1].op = "FlushCollection" /\ tier[1] \in {"cold", "absent"})
    => (ret[1].err = ErrNoCollection /\ disk = snap.disk /\ HotViews = snap.hot)

\* the refused flush of a cold-only collection that was flushed before
C10_Witness ==
    /\ Done(1) /\ call[1].op = "FlushCollection" /\ tier[1] = "cold"
    /\ ret[1].err = ErrNoCollection
    /\ ColdValue(call[1].id, 2) # None

\* ---- C11 ----
Range(s) == {s[i] : i \in 1..Len(s)}
ExistingNames == {IdName(id) : id \in {i \in AllIds : HotExists(i) \/ ColdExists(i)}}

\* C11: ListCollections returns without error exactly the ids that are hot
\* or have a cold file, each of them once.
C11_ListingUnion ==
    (Done(1) /\ call[1].op = "ListCollections")
    => (/\ ret[1].err = OK
        /\ Range(ret[1].ids) = ExistingNames
        /\ Len(ret[1].ids) = Cardinality(ExistingNames))

\* ---- C12 ----
\* the ids that were hot when the current call began
HotAtCall == {id \in AllIds : snap.hot[id].hot}
Persisted(id) ==
    /\ ~HotExists(id)
    /\ Decodable(disk[id])
    /\ Decode(disk[id]) = snap.hot[id].m
StillHot(id) == HotExists(id) /\ HotView(id) = snap.hot[id]

\* C12: FlushAllCollections visits every id that was hot at the call, each
\* once, and goes on after a failure; when it returns, every such id is
\* either persisted with its contents and no longer hot, or still hot and
\* unchanged, there is one I/O error per id still hot, and no other id is hot
\* (so with an empty error list the hot tier is empty).
C12_FlushAll ==
    /\ (pc[1] # "done" /\ call[1].op = "FlushAllCollections")
       => (loc[1].seen \subseteq HotAtCall /\ Len(loc[1].errs) <= Cardinality(loc[1].seen))
    /\ (Done(1) /\ call[1].op = "FlushAllCollections")
       => (/\ \A id \in HotAtCall : Persisted(id) \/ StillHot(id)
           /\ \A id \in AllIds \ HotAtCall : ~HotExists(id)
           /\ Len(ret[1].errs) = Cardinality({id \in HotAtCall : HotExists(id)})
           /\ Range(ret[1].errs) \subseteq IOErrors
           /\ ret[1].err = OK)

\* two collections were hot, the flush of one failed and the other was persisted
C12_Witness ==
    /\ Done(1) /\ call[1].op = "FlushAllCollections"
    /\ Len(ret[1].errs) = 1
    /\ \E a, b \in HotAtCall : StillHot(a) /\ Persisted(b) /\ snap.hot[b].m # EmptyCollection

\* ---- C13 ----
\* C13: a ReadKey of an id that was in neither tier returns the error "No
\* collection found in hot or cold storage", with autoCreateCollection true
\* or false, and leaves both tiers as they were: the id is still absent.
C13_ReadNeverCreates ==
    (Done(1) /\ call[1].op = "ReadKey" /\ tier[1] = "absent")
    => (/\ ret[1].err = ErrNoCollection
        /\ Tier(call[1].id) = "absent"
        /\ HotViews = snap.hot
        /\ disk = snap.disk)

\* the read of an absent id has returned although auto-create is on
C13_Witness ==
    /\ autoCreateCollection
    /\ Done(1) /\ call[1].op = "ReadKey" /\ tier[1] = "absent"
    /\ ret[1].err = ErrNoCollection

\* ---- C14 ----
\* the steps of ReadKey and WriteKey that check or read the cold copy
ColdSteps == {"rk_cold", "lcinp_cold", "lc_read"}

\* C14 (I3): no step of a ReadKey or WriteKey checks or reads the cold copy
\* of an id while that id is hot.
C14_HotServesAll ==
    [][\A t \in Threads :
        (pc[t] \in ColdSteps /\ Moves(t)) => ~HotExists(loc[t].id)]_vars

\* ---- C15 ----
\* C15: the registry is guarded: no caller is about to insert into or delete
\* from the registry map while another caller is about to read, range over
\* or write it.
C15_RegistryGuarded == ~RegistryRace

\* ---- C16 ----
\* C16: IsHot(c) returns the error "No collection found" exactly when c is in
\* neither tier; otherwise it returns no error and whether c is in the hot
\* registry; and it changes neither the hot contents nor the files.
C16_IsHot ==
    (Done(1) /\ call[1].op = "IsHot")
    => (/\ (ret[1].err = ErrNoCollection) <=> (tier[1] = "absent")
        /\ tier[1] # "absent" =>
              (ret[1].err = OK /\ ret[1].val = B2I(tier[1] \in {"hot", "hot+cold"}))
        /\ Tier(call[1].id) = tier[1]
        /\ HotViews = snap.hot
        /\ disk = snap.disk)

\* IsHot of a cold-only collection answered false while another collection is hot
C16_Witness ==
    /\ Done(1) /\ call[1].op = "IsHot"
    /\ tier[1] = "cold" /\ ret[1].err = OK /\ ret[1].val = B2I(FALSE)
    /\ \E id \in Ids : HotExists(id)

\* ---- C17 ----
\* an id that is safe to embed in a path: not empty, no separator, no ".."
SafeName(n) == n # <<>> /\ IndexOf(n, <<Sep>>) = 0 /\ IndexOf(n, DotDot) = 0

\* C17: a call with an id that is not safe to embed in a path returns an
\* error and leaves both tiers as they were, and every data file is a child
\* of the data directory.
C17_IdValidation ==
    /\ (Done(1) /\ call[1].id # None /\ ~SafeName(IdName(call[1].id)))
       => (ret[1].err # OK /\ HotViews = snap.hot /\ disk = snap.disk)
    /\ \A id \in AllIds : ColdExists(id) => InDataDir(DataFilePath(id))

\* ---- C18 ----
\* thread t takes the drop step of a flush of id, and the flush succeeds
FlushEvicts(t, id) ==
    /\ pc[t] = "fc_drop" /\ loc[t].id = id /\ Moves(t)
    /\ \/ call[t].op = "FlushCollection" /\ pc'[t] = "done" /\ ret'[t].err = OK
       \/ call[t].op = "FlushAllCollections" /\ pc'[t] = "fa_range" /\ loc'[t].errs = loc[t].errs

\* C18: every step that takes an id out of the hot registry is the drop step
\* of a successful FlushCollection of that id, called directly or by
\* FlushAllCollections; no step of any other operation evicts.
C18_OnlyFlushEvicts ==
    [][\A id \in AllIds :
        (HotExists(id) /\ ~HotExists(id)') => \E t \in Threads : FlushEvicts(t, id)]_vars

\* one id was evicted by a successful flush while another id, read by a
\* concurrent ReadKey, is still hot
C18_Witness ==
    \E t, u \in Threads :
        /\ Done(t) /\ call[t].op = "FlushCollection" /\ ret[t].err = OK
        /\ ~HotExists(call[t].id)
        /\ Done(u) /\ call[u].op = "ReadKey" /\ ret[u].err = OK
        /\ HotExists(call[u].id)

\* ---- C19 ----
\* the contents of id when the current call began: the hot copy, else what
\* the file decodes to, else nothing
ContentsAtCall(id) ==
    IF snap.hot[id].hot THEN snap.hot[id].m
    ELSE IF Decodable(snap.disk[id]) THEN Decode(snap.disk[id])
    ELSE EmptyCollection

\* C19: after a successful WriteKey(c,k,v) the hot copy of c is the contents
\* c had at the call with k set to v, the hot contents of every other
\* collection and every file are as they were at the call; after a failing
\* WriteKey all hot contents and all files are as they were.
C19_WriteFrame ==
    (Done(1) /\ call[1].op = "WriteKey")
    => (/\ disk = snap.disk
        /\ IF ret[1].err = OK
           THEN /\ HotExists(call[1].id)
                /\ HotView(call[1].id).m =
                      [ContentsAtCall(call[1].id) EXCEPT ![call[1].key] = call[1].val]
                /\ \A id \in AllIds \ {call[1].id} : HotView(id) = snap.hot[id]
           ELSE HotViews = snap.hot)

\* a write to a cold-only collection kept the key the file held and left the
\* file, now stale, as it was
C19_Witness ==
    /\ Done(1) /\ call[1].op = "WriteKey" /\ ret[1].err = OK
    /\ tier[1] = "cold"
    /\ call[1].key = 2
    /\ HotValue(call[1].id, 1) # None
    /\ HotValue(call[1].id, 2) = call[1].val
    /\ ColdValue(call[1].id, 2) = None

\* ---- C20 ----
\* C20: no step deletes a cold file, and no step takes an id that is in
\* either tier out of both: an id leaves the hot registry only when its file
\* exists.  So CollectionExists, once true, stays true.
C20_ExistenceMonotonic ==
    [][\A id \in AllIds :
        /\ ColdExists(id) => ColdExists(id)'
        /\ (HotExists(id) \/ ColdExists(id)) => (HotExists(id)' \/ ColdExists(id)')]_vars

\* a flush of one caller has failed with an I/O error, a flush of another
\* caller has evicted its collection, whose file exists
C20_Witness ==
    \E t, u \in Threads :
        /\ Done(t) /\ call[t].op = "FlushCollection" /\ ret[t].err \in IOErrors
        /\ Done(u) /\ call[u].op = "FlushCollection" /\ ret[u].err = OK
        /\ ~HotExists(call[u].id) /\ ColdExists(call[u].id)

====
